---- MODULE Spec2Model ----
(***************************************************************************)
(* Wallet authentication service of elna-external-service (jwt-auth).      *)
(*                                                                         *)
(* The user-manager Lambda (deployment/user-manager/index.js and the       *)
(* second copy of it carried in revert-deploy.sh) serves four routes:      *)
(*   POST /nonce   createNonce      (RequestNonce)                         *)
(*   POST /tokens  generateTokens   (Authenticate)                         *)
(*   POST /refresh refreshToken     (Refresh)                              *)
(*   GET  /user    getUser          (WhoAmI)                               *)
(* The jwt-validator Lambda (deployment/jwt-validator/index.js and its     *)
(* plain-secret copy) is the API Gateway authorizer.                       *)
(*                                                                         *)
(* Every invocation of a handler runs on its own; the only shared state is *)
(* the DynamoDB table.  A handler runs without interruption up to its      *)
(* `await dynamoDB.<op>(...).promise()`; the store applies the operation   *)
(* atomically at some later moment (StoreReply) and the handler then       *)
(* returns.  Other invocations may run in between.                         *)
(***************************************************************************)
EXTENDS Integers, Sequences, FiniteSets, TLC

(***************************************************************************)
(* Bounds of the model.                                                    *)
(***************************************************************************)
MaxRequests == 4   \* handler invocations in one behaviour
MaxNonces   == 2   \* nonces drawn by crypto.randomBytes in one behaviour
MaxTicks    == 1   \* clock advances in one behaviour
MaxInFlight == 2   \* handler invocations that can be waiting for the store
MaxFaults   == 1   \* store calls the store rejects in one behaviour
MaxDeliveryMs == 1 \* milliseconds from a handler's clock reading to the client's receipt
MaxArgs     == 2   \* command-line arguments given to deploy-master.sh
MaxRuns     == 3   \* runs of revert-deploy.sh and deploy-infrastructure.sh in one behaviour

(***************************************************************************)
(* Program constants.                                                      *)
(***************************************************************************)
FreshnessWindowMs == 4 * 60 * 1000       \* fourMinutesAgo = currentTime - 4 * 60 * 1000
AccessTtlSec      == 7 * 24 * 60 * 60    \* expiresIn: "7d"
RefreshTtlSec     == 30 * 24 * 60 * 60   \* expiresIn: "30d"
SecretPrefixLen   == 8                   \* publicKey.substring(0, 8)
ACCESS_TOKEN_SECRET == "default_secret"
REQUST_COUNT == 10                             \* magefile.go: const REQUST_COUNT int = 10
NonceCookieMaxAgeSec   == 120                 \* auth-nonce cookie, maxAge: 120
RefreshCookieMaxAgeSec == 30 * 24 * 60 * 60   \* refresh-token cookie, maxAge: 30 * 24 * 60 * 60

(***************************************************************************)
(* Values.  A string that the code takes apart (a public key) is a         *)
(* sequence of characters; the empty string, which JavaScript treats as    *)
(* false, is the empty sequence.                                           *)
(***************************************************************************)
KeyA == <<"A", "a", "a", "a", "a", "a", "a", "a", "1">>   \* longer than 8 characters
KeyB == <<"B", "b", "b">>                                 \* shorter than 8 characters
PublicKeys == {KeyA, KeyB}
NoKey == <<>>            \* publicKey absent from the body, or ""

NoNonce == 0             \* nonce absent from the body, or ""
NoIso   == ""            \* isoTimestamp absent from the body, or ""
IsoTime == "2025-01-01T00:00:00.000Z"

NoCookie == [kind |-> "none"]       \* the cookie is not in the request
NoItem   == <<>>                    \* result.Item is undefined
NaN      == -1                      \* Number(<text that is no number>)

Min(a, b) == IF a <= b THEN a ELSE b

(***************************************************************************)
(* String.prototype.substring(0, n)                                        *)
(***************************************************************************)
substring(s, n) == SubSeq(s, 1, Min(n, Len(s)))

(***************************************************************************)
(* Date.now() in milliseconds and the clock jsonwebtoken uses, in seconds  *)
(* (Math.floor(Date.now() / 1000)).                                        *)
(***************************************************************************)
Seconds(ms) == ms \div 1000

(***************************************************************************)
(* The per-identity signing secret of the user-manager:                    *)
(* ACCESS_TOKEN_SECRET + publicKey.substring(0, 8).  A secret is the base  *)
(* string followed by a suffix of characters.                              *)
(***************************************************************************)
encodePublicKey(publicKey) ==
    [base |-> ACCESS_TOKEN_SECRET, suffix |-> substring(publicKey, SecretPrefixLen)]

(***************************************************************************)
(* ACCESS_TOKEN_SECRET alone, the secret of the plain copy of the          *)
(* authorizer: the base string with nothing appended.                      *)
(***************************************************************************)
plainSecret == [base |-> ACCESS_TOKEN_SECRET, suffix |-> <<>>]

(***************************************************************************)
(* aes-256-cbc under the configured key (GM_TYPE) and the fixed IV.  A     *)
(* ciphertext is the plaintext it was made from, sealed: `intact` says     *)
(* whether it is still the byte string the cipher produced.                *)
(***************************************************************************)
Encrypt(plain) == [kind |-> "cipher", plain |-> plain, intact |-> TRUE]

(***************************************************************************)
(* Any change of a ciphertext byte, or a ciphertext made under another     *)
(* key.                                                                    *)
(***************************************************************************)
Tamper(c) == [c EXCEPT !.intact = FALSE]

(***************************************************************************)
(* decipher.update(enNonce, "hex", "utf8") + decipher.final("utf8")        *)
(* followed by decrypted.split(":").  CBC carries no authentication: for a *)
(* changed ciphertext final() throws when the padding is wrong, and        *)
(* otherwise yields text in which the changed block is garbage: the nonce  *)
(* block (the nonce no longer matches anything) or the timestamp block     *)
(* (the nonce is intact and the timestamp is no number).                   *)
(* Text that is no ciphertext at all makes final() throw.                  *)
(* The results are <<"ok", nonce, timestamp>> or <<"throw">>.              *)
(***************************************************************************)
GarbageNonce == NoNonce - 1
DecryptOutcomes(c) ==
    IF c.kind # "cipher" THEN {<<"throw">>}
    ELSE IF c.intact
    THEN {<<"ok", c.plain[1], c.plain[2]>>}
    ELSE {<<"throw">>, <<"ok", GarbageNonce, NaN>>, <<"ok", c.plain[1], NaN>>}

(***************************************************************************)
(* JavaScript `timestamp < fourMinutesAgo` with a string on the left: the  *)
(* string is converted to a number, and every comparison with NaN is       *)
(* false.                                                                  *)
(***************************************************************************)
JsLess(timestamp, bound) == timestamp # NaN /\ timestamp < bound

(***************************************************************************)
(* The message the wallet signs (the template of generateTokens).          *)
(***************************************************************************)
Message(nonce, publicKey, isoTimestamp) ==
    [nonce |-> nonce, account |-> publicKey, issuedAt |-> isoTimestamp]

(***************************************************************************)
(* An ed25519 signature made with the private key of `signer` over `msg`,  *)
(* base58 encoded.  Only the holder of the private key can make it.        *)
(***************************************************************************)
Sign(signer, msg) == [kind |-> "sig", signer |-> signer, msg |-> msg]
NoSignature  == [kind |-> "none"]      \* signature absent from the body, or ""
NotBase58    == [kind |-> "notb58"]    \* holds a character outside the base58 alphabet
WrongLength  == [kind |-> "badlen"]    \* decodes to a number of bytes other than 64

(***************************************************************************)
(* bs58.decode(signature) followed by nacl.sign.detached.verify(message,   *)
(* signature, publicKey): "throw" when bs58 rejects the text or nacl       *)
(* rejects the size ('bad signature size'), else the boolean.  The public  *)
(* keys of PublicKeys are well-formed base58 of 32 bytes.                  *)
(***************************************************************************)
verify(msg, signature, publicKey) ==
    IF signature.kind \in {"notb58", "badlen"} THEN "throw"
    ELSE IF signature.signer = publicKey /\ signature.msg = msg THEN "valid"
    ELSE "invalid"

(***************************************************************************)
(* jsonwebtoken.  jwt.sign({ sub }, secret, { expiresIn }) is HS256 over   *)
(* the payload {sub, iat, exp}: a function of payload and secret, so two   *)
(* tokens with the same payload and secret are the same string.            *)
(***************************************************************************)
jwtSign(sub, secret, expiresIn, nowMs) ==
    [kind |-> "jwt", sub |-> sub, iat |-> Seconds(nowMs),
     exp |-> Seconds(nowMs) + expiresIn, key |-> secret]

(***************************************************************************)
(* jwt.decode(token): the payload, unverified; null for text that is no    *)
(* JWT.                                                                    *)
(***************************************************************************)
Garbage == [kind |-> "garbage"]
jwtDecodes(token) == token.kind = "jwt"

(***************************************************************************)
(* decoded?.sub, NoKey when the token does not decode or carries no sub.   *)
(***************************************************************************)
decodedSub(token) == IF jwtDecodes(token) THEN token.sub ELSE NoKey

(***************************************************************************)
(* jwt.verify(token, secret): throws on a signature made with another      *)
(* secret and when clockTimestamp >= payload.exp.                          *)
(***************************************************************************)
jwtVerify(token, secret, nowMs) ==
    /\ token.kind = "jwt"
    /\ token.key = secret
    /\ Seconds(nowMs) < token.exp

(***************************************************************************)
(* What a client can forge without any secret of the service: a JWT with   *)
(* the subject and expiry of its choice, signed with a secret of its own.  *)
(***************************************************************************)
AttackerSecret == [base |-> "attacker", suffix |-> <<>>]
Forge(sub) ==
    [kind |-> "jwt", sub |-> sub, iat |-> 0, exp |-> 2 * RefreshTtlSec, key |-> AttackerSecret]

(***************************************************************************)
(* A token that verifies under the derived secret of its subject although  *)
(* no handler working on this table returned it: the handlers accept any   *)
(* such token (jwt.verify is their only test), ACCESS_TOKEN_SECRET falls   *)
(* back to a literal of the source and the derivation adds only characters *)
(* of the public key; the table may also have lost the subject's record.   *)
(***************************************************************************)
(* A refresh token the service returned before the cleanup part of         *)
(* revert-deploy.sh deleted the Users table: deployed again with the same  *)
(* ACCESS_TOKEN_SECRET, the handlers still verify it, and its subject has  *)
(* no record.                                                              *)
(***************************************************************************)
Orphan(sub) == jwtSign(sub, encodePublicKey(sub), RefreshTtlSec, 0)

JunkCookie  == [kind |-> "junk"]     \* cookie text that is no ciphertext of the service
InvalidJson == [json |-> FALSE]      \* a body JSON.parse rejects (or no body at all)

(***************************************************************************)
(* State.                                                                  *)
(***************************************************************************)
VARIABLES
    variant,     \* which copy of the user-manager is deployed: "deployed" is
                 \* deployment/user-manager/index.js, "revert" the copy in revert-deploy.sh
    ivSet,       \* process.env.IV and process.env.GM_TYPE are both set
    now,         \* Date.now(), milliseconds
    ticks,       \* clock advances so far
    store,       \* the DynamoDB table: publicKey -> Item, NoItem when there is none
    pending,     \* slot -> the handler invocation awaiting its store call
    requests,    \* handler invocations so far
    nonceCount,  \* nonces drawn so far; the next draw is nonceCount + 1
    issued,      \* what 200 responses of createNonce gave to clients
    minted,      \* the tokens 200 responses of generateTokens/refreshToken gave to clients
    resp,        \* the response (or authorizer policy) the last step returned, with
                 \* the request it answers; NoResponse when the last step returned none
    faults,      \* store calls rejected so far
    authCount,   \* history: nonce -> number of 200s of generateTokens for it and its carrier
    rivalWon,    \* history: slot -> refresh tokens for which an invocation overlapping
                 \* the slot's invocation has returned 200
    master,      \* the run of deploy-master.sh: position, arguments left, configuration,
                 \* the steps started with their exit statuses, and its own exit status
    cloud,       \* the AWS resources the scripts create and delete: which of them exist
    script,      \* the run of revert-deploy.sh or deploy-infrastructure.sh: its name,
                 \* position and exit status, the script that completed before it, and
                 \* the number of runs so far
    mage         \* the run of SendApiRequests of magefile.go: the position of the main
                 \* goroutine, its loop index, the WaitGroup counter, and for every
                 \* processRequest goroutine its position and its calls of wg.Done

serviceVars == <<variant, ivSet, now, ticks, store, pending, requests, nonceCount,
                 issued, minted, resp, faults, authCount, rivalWon>>
scriptVars  == <<master, cloud, script, mage>>
vars == <<serviceVars, scriptVars>>

Slots == 1 .. MaxInFlight
Idle  == [op |-> "idle"]
NoResponse == [op |-> "none", status |-> 0]

InitOf(copy) ==
    /\ variant = copy
    /\ ivSet \in BOOLEAN
    /\ now = 0
    /\ ticks = 0
    /\ store = [k \in PublicKeys |-> NoItem]
    /\ pending = [s \in Slots |-> Idle]
    /\ requests = 0
    /\ nonceCount = 0
    /\ issued = {}
    /\ minted = {}
    /\ resp = NoResponse
    /\ faults = 0
    /\ authCount = [n \in 1 .. MaxNonces |-> 0]
    /\ rivalWon = [s \in Slots |-> {}]

(***************************************************************************)
(* What clients hold and can present.                                      *)
(***************************************************************************)
KnownNonces   == {i.nonce : i \in issued}
KnownCarriers == {i.carrier : i \in {j \in issued : j.carrier # NoCookie}}
KnownTokens   == {m.token : m \in minted}
TokenTexts    == {NoCookie, Garbage} \cup KnownTokens \cup {Forge(k) : k \in {KeyA, NoKey}}

(***************************************************************************)
(* The response object of a handler, kept with the request it answers:     *)
(* `req` the request, `setCookie` the value of the Set-Cookie header       *)
(* (NoCookie when the header is not set), `body` the JSON body, `at` the   *)
(* clock value the handler read, `before` the Item of the request's        *)
(* identity as it was when the handler returned or its store call was      *)
(* applied, `fault` whether that store call was rejected.  `afterRival` is  *)
(* history: the request is a refresh whose token an overlapping refresh    *)
(* has already redeemed.                                                   *)
(***************************************************************************)
Response(op, status, req, setCookie, body, at, before) ==
    [op |-> op, status |-> status, req |-> req, setCookie |-> setCookie,
     body |-> body, at |-> at, before |-> before, fault |-> FALSE, afterRival |-> FALSE]

ItemOf(publicKey) == IF publicKey \in DOMAIN store THEN store[publicKey] ELSE NoItem

FreeSlots == {s \in Slots : pending[s] = Idle}
FirstFree == CHOOSE s \in FreeSlots : \A q \in FreeSlots : s <= q

(***************************************************************************)
(* A handler returns without a store call.                                 *)
(***************************************************************************)
Return(r) ==
    /\ resp' = r
    /\ requests' = requests + 1
    /\ UNCHANGED <<variant, ivSet, now, ticks, store, pending, issued, minted,
                   faults, authCount, rivalWon>>

(***************************************************************************)
(* A handler reaches `await dynamoDB.<op>(...).promise()`.                 *)
(***************************************************************************)
Await(call) ==
    /\ pending' = [pending EXCEPT ![FirstFree] = call]
    /\ rivalWon' = [rivalWon EXCEPT ![FirstFree] = {}]
    /\ requests' = requests + 1
    /\ resp' = NoResponse
    /\ UNCHANGED <<variant, ivSet, now, ticks, store, issued, minted,
                   faults, authCount>>

CanStart == requests < MaxRequests /\ FreeSlots # {}

(***************************************************************************)
(* The awaited store call resolves (ok) or rejects.                        *)
(***************************************************************************)
StoreOutcome(ok) ==
    IF ok THEN UNCHANGED faults
    ELSE faults < MaxFaults /\ faults' = faults + 1

(***************************************************************************)
(* handler, lines 89-100: a POST whose body JSON.parse rejects is answered *)
(* 400 before the route is looked at.                                      *)
(***************************************************************************)
InvalidBody(op, req) ==
    Response(op, 400, req, NoCookie, [error |-> "Invalid JSON body"], now, NoItem)

(***************************************************************************)
(* POST /nonce: createNonce up to its dynamoDB.put.  Both copies draw the  *)
(* nonce, read the clock and put the same Item; the deployed copy encrypts *)
(* before the put and the other one after it.                              *)
(***************************************************************************)
createNonce(body) ==
    /\ CanStart
    /\ LET req == [body |-> body] IN
       \/ /\ ~body.json
          /\ Return(InvalidBody("createNonce", req))
          /\ UNCHANGED nonceCount
       \/ /\ body.json
          /\ body.publicKey = NoKey
          /\ Return(Response("createNonce", 400, req, NoCookie,
                             [error |-> "Missing publicKey"], now, NoItem))
          /\ UNCHANGED nonceCount
       \/ /\ body.json
          /\ body.publicKey # NoKey
          /\ nonceCount < MaxNonces
          /\ LET nonce       == nonceCount + 1
                 currentTime == now
                 encrypted   == IF ivSet THEN Encrypt(<<nonce, currentTime>>) ELSE NoCookie
             IN  /\ nonceCount' = nonce
                 /\ Await([op |-> "createNonce", call |-> "put", req |-> req,
                           key |-> body.publicKey, at |-> currentTime,
                           Item |-> [publicKey |-> body.publicKey, nonce |-> nonce,
                                     createdAt |-> currentTime, updatedAt |-> currentTime],
                           nonce |-> nonce, encrypted |-> encrypted])

(***************************************************************************)
(* createNonceReply writing one record shared by all identities (the put   *)
(* keyed by a constant instead of the publicKey): every identity's record  *)
(* becomes the Item of the request.                                        *)
(***************************************************************************)
createNonceReplySharedRecord(s, ok) ==
    LET p == pending[s] IN
    /\ p.op = "createNonce"
    /\ IF ok
       THEN /\ store' = [k \in DOMAIN store |-> p.Item]
            /\ issued' = issued \cup {[nonce |-> p.nonce, publicKey |-> p.key,
                                       issuedAt |-> p.at, carrier |-> p.encrypted]}
            /\ resp' = Response("createNonce", 200, p.req, p.encrypted,
                                [nonce |-> p.nonce], p.at, store[p.key])
       ELSE /\ UNCHANGED <<store, issued>>
            /\ resp' = [Response("createNonce", 500, p.req, NoCookie,
                                 [error |-> "Failed to create nonce"], p.at, store[p.key])
                        EXCEPT !.fault = TRUE]
    /\ StoreOutcome(ok)
    /\ pending' = [pending EXCEPT ![s] = Idle]
    /\ UNCHANGED <<variant, ivSet, now, ticks, requests, nonceCount, minted,
                   authCount, rivalWon>>

(***************************************************************************)
(* createNonceReply without the try/catch around the put: a rejected put   *)
(* propagates out of the function and the invocation returns no response   *)
(* object (status 0).                                                      *)
(***************************************************************************)
createNonceReplyNoCatch(s, ok) ==
    LET p == pending[s] IN
    /\ p.op = "createNonce"
    /\ IF ok
       THEN /\ store' = [store EXCEPT ![p.key] = p.Item]
            /\ issued' = issued \cup {[nonce |-> p.nonce, publicKey |-> p.key,
                                       issuedAt |-> p.at, carrier |-> p.encrypted]}
            /\ resp' = Response("createNonce", 200, p.req, p.encrypted,
                                [nonce |-> p.nonce], p.at, store[p.key])
       ELSE /\ UNCHANGED <<store, issued>>
            /\ resp' = [Response("createNonce", 0, p.req, NoCookie,
                                 [errorMessage |-> "rejected"], p.at, store[p.key])
                        EXCEPT !.fault = TRUE]
    /\ StoreOutcome(ok)
    /\ pending' = [pending EXCEPT ![s] = Idle]
    /\ UNCHANGED <<variant, ivSet, now, ticks, requests, nonceCount, minted,
                   authCount, rivalWon>>

(***************************************************************************)
(* createNonce after its dynamoDB.put: 200 with the nonce in the body and, *)
(* when IV and GM_TYPE are set, the encrypted nonce in the auth-nonce      *)
(* cookie; 500 when the put was rejected.  DocumentClient.put replaces the *)
(* whole Item.                                                             *)
(***************************************************************************)
createNonceReply(s, ok) ==
    LET p == pending[s] IN
    /\ p.op = "createNonce"
    /\ IF ok
       THEN /\ store' = [store EXCEPT ![p.key] = p.Item]
            /\ issued' = issued \cup {[nonce |-> p.nonce, publicKey |-> p.key,
                                       issuedAt |-> p.at, carrier |-> p.encrypted]}
            /\ resp' = Response("createNonce", 200, p.req, p.encrypted,
                                [nonce |-> p.nonce], p.at, store[p.key])
       ELSE /\ UNCHANGED <<store, issued>>
            /\ resp' = [Response("createNonce", 500, p.req, NoCookie,
                                 [error |-> "Failed to create nonce"], p.at, store[p.key])
                        EXCEPT !.fault = TRUE]
    /\ StoreOutcome(ok)
    /\ pending' = [pending EXCEPT ![s] = Idle]
    /\ UNCHANGED <<variant, ivSet, now, ticks, requests, nonceCount, minted,
                   authCount, rivalWon>>

(***************************************************************************)
(* The clock advances.                                                     *)
(***************************************************************************)
ClockSteps == {FreshnessWindowMs, AccessTtlSec * 1000}

Tick(d) ==
    /\ ticks < MaxTicks
    /\ requests < MaxRequests     \* no handler reads the clock after the last request
    /\ now' = now + d
    /\ ticks' = ticks + 1
    /\ resp' = NoResponse
    /\ UNCHANGED <<variant, ivSet, store, pending, requests, nonceCount, issued,
                   minted, faults, authCount, rivalWon>>

(***************************************************************************)
(* generateTokensChecks with the freshness comparison made inclusive       *)
(* (timestamp <= fourMinutesAgo): a carrier that is exactly four minutes   *)
(* old is rejected.                                                        *)
(***************************************************************************)
generateTokensChecksInclusive(body, enNonce, dec, currentTime) ==
    IF \/ body.publicKey = NoKey \/ body.signature = NoSignature
       \/ body.nonce = NoNonce \/ body.isoTimestamp = NoIso THEN 400
    ELSE IF ~ivSet THEN 500
    ELSE IF enNonce = NoCookie THEN 401
    ELSE IF dec[1] = "throw" THEN 500
    ELSE IF dec[2] # body.nonce \/ JsLess(dec[3], currentTime - FreshnessWindowMs + 1) THEN 403
    ELSE LET isValid == verify(Message(body.nonce, body.publicKey, body.isoTimestamp),
                               body.signature, body.publicKey)
         IN  IF isValid = "throw" THEN 500
             ELSE IF isValid = "invalid" THEN 401
             ELSE 0

(***************************************************************************)
(* generateTokensChecks with isoTimestamp left out of the test for missing *)
(* fields.                                                                 *)
(***************************************************************************)
generateTokensChecksNoIsoTest(body, enNonce, dec, currentTime) ==
    IF \/ body.publicKey = NoKey \/ body.signature = NoSignature
       \/ body.nonce = NoNonce THEN 400
    ELSE IF ~ivSet THEN 500
    ELSE IF enNonce = NoCookie THEN 401
    ELSE IF dec[1] = "throw" THEN 500
    ELSE IF dec[2] # body.nonce \/ JsLess(dec[3], currentTime - FreshnessWindowMs) THEN 403
    ELSE LET isValid == verify(Message(body.nonce, body.publicKey, body.isoTimestamp),
                               body.signature, body.publicKey)
         IN  IF isValid = "throw" THEN 500
             ELSE IF isValid = "invalid" THEN 401
             ELSE 0

(***************************************************************************)
(* generateTokensChecks with the signature verified before the nonce and   *)
(* its age are looked at.                                                  *)
(***************************************************************************)
generateTokensChecksVerifyFirst(body, enNonce, dec, currentTime) ==
    IF \/ body.publicKey = NoKey \/ body.signature = NoSignature
       \/ body.nonce = NoNonce \/ body.isoTimestamp = NoIso THEN 400
    ELSE IF ~ivSet THEN 500
    ELSE IF enNonce = NoCookie THEN 401
    ELSE IF dec[1] = "throw" THEN 500
    ELSE LET isValid == verify(Message(body.nonce, body.publicKey, body.isoTimestamp),
                               body.signature, body.publicKey)
         IN  IF isValid = "throw" THEN 500
             ELSE IF isValid = "invalid" THEN 401
             ELSE IF dec[2] # body.nonce
                     \/ JsLess(dec[3], currentTime - FreshnessWindowMs) THEN 403
             ELSE 0

(***************************************************************************)
(* POST /tokens: the checks of generateTokens before it signs any token,   *)
(* in the order of the deployed copy.  `dec` is what decrypting the cookie *)
(* gives.  The result is the status of the early return, or 0 when every   *)
(* check passed.                                                           *)
(***************************************************************************)
generateTokensChecks(body, enNonce, dec, currentTime) ==
    IF \/ body.publicKey = NoKey \/ body.signature = NoSignature
       \/ body.nonce = NoNonce \/ body.isoTimestamp = NoIso THEN 400
    ELSE IF ~ivSet THEN 500                 \* Buffer.from(undefined, "base64") throws
    ELSE IF enNonce = NoCookie THEN 401
    ELSE IF dec[1] = "throw" THEN 500       \* caught by the catch of generateTokens
    ELSE IF dec[2] # body.nonce \/ JsLess(dec[3], currentTime - FreshnessWindowMs) THEN 403
    ELSE LET isValid == verify(Message(body.nonce, body.publicKey, body.isoTimestamp),
                               body.signature, body.publicKey)
         IN  IF isValid = "throw" THEN 500
             ELSE IF isValid = "invalid" THEN 401
             ELSE 0

(***************************************************************************)
(* The same checks in the order of the copy in revert-deploy.sh: the       *)
(* cookie is looked for before IV and GM_TYPE are decoded.                 *)
(***************************************************************************)
generateTokensChecksRevert(body, enNonce, dec, currentTime) ==
    IF \/ body.publicKey = NoKey \/ body.signature = NoSignature
       \/ body.nonce = NoNonce \/ body.isoTimestamp = NoIso THEN 400
    ELSE IF enNonce = NoCookie THEN 401
    ELSE IF ~ivSet THEN 500
    ELSE IF dec[1] = "throw" THEN 500
    ELSE IF dec[2] # body.nonce \/ JsLess(dec[3], currentTime - FreshnessWindowMs) THEN 403
    ELSE LET isValid == verify(Message(body.nonce, body.publicKey, body.isoTimestamp),
                               body.signature, body.publicKey)
         IN  IF isValid = "throw" THEN 500
             ELSE IF isValid = "invalid" THEN 401
             ELSE 0

generateTokensError(status) ==
    CASE status = 400 -> [error |-> "Missing required parameters"]
      [] status = 401 -> [error |-> "Nonce not found in cookies or signature verification failed"]
      [] status = 403 -> [error |-> "Invalid or expired nonce"]
      [] OTHER        -> [error |-> "Failed to generate tokens"]

(***************************************************************************)
(* The bodies and cookies clients send to POST /tokens.                    *)
(***************************************************************************)
TokenBody(k, sg, n, t) ==
    [json |-> TRUE, publicKey |-> k, signature |-> sg, nonce |-> n, isoTimestamp |-> t]

MissingOne(b) ==
    {[b EXCEPT !.publicKey = NoKey], [b EXCEPT !.signature = NoSignature],
     [b EXCEPT !.nonce = NoNonce], [b EXCEPT !.isoTimestamp = NoIso]}

CarrierOf(n) == {i.carrier : i \in {j \in issued : j.nonce = n /\ j.carrier # NoCookie}}

TokenRequests ==
    {[body |-> InvalidJson, cookie |-> NoCookie]} \cup
    \* a complete body, signed by the key's owner or by somebody else, with no cookie,
    \* a carrier the service issued, or the changed carrier of the nonce
    UNION { { [body |-> TokenBody(k, Sign(signer, Message(n, k, IsoTime)), n, IsoTime),
               cookie |-> c] :
                k \in PublicKeys, signer \in PublicKeys,
                c \in {NoCookie, JunkCookie} \cup KnownCarriers
                      \cup {Tamper(x) : x \in CarrierOf(n)} } : n \in KnownNonces } \cup
    \* a malformed signature, or one field missing, with the carrier of the nonce
    UNION { { [body |-> b, cookie |-> c] :
                b \in {TokenBody(KeyA, sg, n, IsoTime) : sg \in {NotBase58, WrongLength}}
                      \cup MissingOne(TokenBody(KeyA, Sign(KeyA, Message(n, KeyA, IsoTime)),
                                                n, IsoTime)),
                c \in CarrierOf(n) \cup {NoCookie} } : n \in KnownNonces }

(***************************************************************************)
(* generateTokens up to its dynamoDB.put.                                  *)
(***************************************************************************)
generateTokens(body, enNonce) ==
    /\ CanStart
    /\ UNCHANGED nonceCount
    /\ LET req == [body |-> body, cookie |-> enNonce]
           currentTime == now
       IN
       \/ /\ ~body.json
          /\ Return(InvalidBody("generateTokens", req))
       \/ /\ body.json
          /\ \E dec \in DecryptOutcomes(enNonce) :
               LET status == IF variant = "deployed"
                             THEN generateTokensChecks(body, enNonce, dec, currentTime)
                             ELSE generateTokensChecksRevert(body, enNonce, dec, currentTime)
                   secret == encodePublicKey(body.publicKey)
                   accessToken  == jwtSign(body.publicKey, secret, AccessTtlSec, currentTime)
                   refreshToken == jwtSign(body.publicKey, secret, RefreshTtlSec, currentTime)
               IN  IF status # 0
                   THEN Return(Response("generateTokens", status, req, NoCookie,
                                        generateTokensError(status), currentTime,
                                        ItemOf(body.publicKey)))
                   ELSE Await([op |-> "generateTokens", call |-> "put", req |-> req,
                               key |-> body.publicKey, at |-> currentTime,
                               Item |-> [publicKey |-> body.publicKey,
                                         refreshToken |-> refreshToken,
                                         updatedAt |-> currentTime],
                               accessToken |-> accessToken, refreshToken |-> refreshToken])

(***************************************************************************)
(* generateTokensReply putting the access token where the refresh token    *)
(* belongs.                                                                *)
(***************************************************************************)
generateTokensReplyStoresAccess(s, ok) ==
    LET p == pending[s] IN
    /\ p.op = "generateTokens"
    /\ IF ok
       THEN /\ store' = [store EXCEPT ![p.key] = [p.Item EXCEPT !.refreshToken = p.accessToken]]
            /\ minted' = minted \cup {[token |-> p.accessToken, use |-> "access"],
                                      [token |-> p.refreshToken, use |-> "refresh"]}
            /\ authCount' = IF p.req.cookie.intact
                             THEN [authCount EXCEPT ![p.req.body.nonce] = @ + 1]
                             ELSE authCount
            /\ resp' = Response("generateTokens", 200, p.req, p.refreshToken,
                                [accessToken |-> p.accessToken], p.at, store[p.key])
       ELSE /\ UNCHANGED <<store, minted, authCount>>
            /\ resp' = [Response("generateTokens", 500, p.req, NoCookie,
                                 generateTokensError(500), p.at, store[p.key])
                        EXCEPT !.fault = TRUE]
    /\ StoreOutcome(ok)
    /\ pending' = [pending EXCEPT ![s] = Idle]
    /\ UNCHANGED <<variant, ivSet, now, ticks, requests, nonceCount, issued,
                   rivalWon>>

(***************************************************************************)
(* generateTokens after its dynamoDB.put: 200 with the access token in the *)
(* body and the refresh token in the refresh-token cookie; 500 when the    *)
(* put was rejected.                                                       *)
(***************************************************************************)
generateTokensReply(s, ok) ==
    LET p == pending[s] IN
    /\ p.op = "generateTokens"
    /\ IF ok
       THEN /\ store' = [store EXCEPT ![p.key] = p.Item]
            /\ minted' = minted \cup {[token |-> p.accessToken, use |-> "access"],
                                      [token |-> p.refreshToken, use |-> "refresh"]}
            /\ authCount' = IF p.req.cookie.intact
                             THEN [authCount EXCEPT ![p.req.body.nonce] = @ + 1]
                             ELSE authCount
            /\ resp' = Response("generateTokens", 200, p.req, p.refreshToken,
                                [accessToken |-> p.accessToken], p.at, store[p.key])
       ELSE /\ UNCHANGED <<store, minted, authCount>>
            /\ resp' = [Response("generateTokens", 500, p.req, NoCookie,
                                 generateTokensError(500), p.at, store[p.key])
                        EXCEPT !.fault = TRUE]
    /\ StoreOutcome(ok)
    /\ pending' = [pending EXCEPT ![s] = Idle]
    /\ UNCHANGED <<variant, ivSet, now, ticks, requests, nonceCount, issued,
                   rivalWon>>

(***************************************************************************)
(* POST /refresh: refreshToken up to its dynamoDB.update.  Every failure   *)
(* after the cookie was found is answered 403 in both copies: the deployed *)
(* copy has jwt.verify, jwt.sign and the update in one inner try, the      *)
(* other copy has one catch for the whole function.                        *)
(***************************************************************************)
refreshToken(body, cookie) ==
    /\ CanStart
    /\ UNCHANGED nonceCount
    /\ LET req == [body |-> body, cookie |-> cookie]
           Reject(why) == Return(Response("refreshToken", 403, req, NoCookie,
                                          [error |-> why], now,
                                          ItemOf(decodedSub(cookie))))
       IN
       \/ /\ ~body.json
          /\ Return(InvalidBody("refreshToken", req))
       \/ /\ body.json
          /\ cookie = NoCookie
          /\ Reject("Refresh token not found")
       \/ /\ body.json
          /\ cookie # NoCookie
          /\ decodedSub(cookie) = NoKey
          /\ Reject("Invalid refresh token format")
       \/ /\ body.json
          /\ decodedSub(cookie) # NoKey
          /\ LET publicKey  == cookie.sub
                 encodedKey == encodePublicKey(publicKey)
                 newAccessToken  == jwtSign(publicKey, encodedKey, AccessTtlSec, now)
                 newRefreshToken == jwtSign(publicKey, encodedKey, RefreshTtlSec, now)
             IN  IF ~jwtVerify(cookie, encodedKey, now)
                 THEN Reject("Invalid or expired refresh token")
                 ELSE Await([op |-> "refreshToken", call |-> "update", req |-> req,
                             key |-> publicKey, at |-> now,
                             accessToken |-> newAccessToken,
                             refreshToken |-> newRefreshToken])

(***************************************************************************)
(* DocumentClient.update with "SET refreshToken = :refreshToken,           *)
(* updatedAt = :updatedAt" and no ConditionExpression: the two attributes  *)
(* are set and the others kept; an Item that does not exist is created     *)
(* with the key and the two attributes.                                    *)
(***************************************************************************)
update(item, publicKey, newRefreshToken, updatedAt) ==
    LET base == IF item = NoItem THEN [publicKey |-> publicKey] ELSE item
        keep == DOMAIN base \ {"refreshToken", "updatedAt"}
    IN  [f \in keep \cup {"refreshToken", "updatedAt"} |->
            IF f = "refreshToken" THEN newRefreshToken
            ELSE IF f = "updatedAt" THEN updatedAt
            ELSE base[f]]

(***************************************************************************)
(* refreshTokenReply with the update not awaited: the function returns its *)
(* 200 whether or not the update is applied, and a rejected update changes *)
(* nothing.                                                                *)
(***************************************************************************)
refreshTokenReplyNoAwait(s, ok) ==
    LET p == pending[s] IN
    /\ p.op = "refreshToken"
    /\ store' = IF ok THEN [store EXCEPT ![p.key] = update(@, p.key, p.refreshToken, p.at)]
                 ELSE store
    /\ minted' = minted \cup {[token |-> p.accessToken, use |-> "access"],
                              [token |-> p.refreshToken, use |-> "refresh"]}
    /\ resp' = Response("refreshToken", 200, p.req, p.refreshToken,
                        [accessToken |-> p.accessToken], p.at, store[p.key])
    /\ StoreOutcome(ok)
    /\ pending' = [pending EXCEPT ![s] = Idle]
    /\ UNCHANGED <<variant, ivSet, now, ticks, requests, nonceCount, issued,
                   authCount, rivalWon>>

(***************************************************************************)
(* refreshToken after its dynamoDB.update: 200 with the new access token   *)
(* and the new refresh token in the refresh-token cookie; 403 when the     *)
(* update was rejected.                                                    *)
(***************************************************************************)
refreshTokenReply(s, ok) ==
    LET p == pending[s]
        rivals == {q \in Slots \ {s} : /\ pending[q].op = "refreshToken"
                                       /\ pending[q].req.cookie = p.req.cookie}
    IN
    /\ p.op = "refreshToken"
    /\ IF ok
       THEN /\ store' = [store EXCEPT ![p.key] = update(@, p.key, p.refreshToken, p.at)]
            /\ minted' = minted \cup {[token |-> p.accessToken, use |-> "access"],
                                      [token |-> p.refreshToken, use |-> "refresh"]}
            /\ rivalWon' = [q \in Slots |-> IF q \in rivals
                                            THEN rivalWon[q] \cup {p.req.cookie}
                                            ELSE rivalWon[q]]
            /\ resp' = [Response("refreshToken", 200, p.req, p.refreshToken,
                                 [accessToken |-> p.accessToken], p.at, store[p.key])
                        EXCEPT !.afterRival = p.req.cookie \in rivalWon[s]]
       ELSE /\ UNCHANGED <<store, minted, rivalWon>>
            /\ resp' = [Response("refreshToken", 403, p.req, NoCookie,
                                 [error |-> "Invalid or expired refresh token"],
                                 p.at, store[p.key])
                        EXCEPT !.fault = TRUE]
    /\ StoreOutcome(ok)
    /\ pending' = [pending EXCEPT ![s] = Idle]
    /\ UNCHANGED <<variant, ivSet, now, ticks, requests, nonceCount, issued,
                   authCount>>

(***************************************************************************)
(* getUserChecks verifying with ACCESS_TOKEN_SECRET alone instead of the   *)
(* secret derived for the subject.                                         *)
(***************************************************************************)
getUserChecksBareSecret(token) ==
    IF token = NoCookie THEN 401
    ELSE IF decodedSub(token) = NoKey THEN 401
    ELSE IF ~jwtVerify(token, plainSecret, now) THEN 401
    ELSE 0

(***************************************************************************)
(* GET /user: getUser up to its dynamoDB.get.  The deployed copy verifies  *)
(* the token before it reads the store.                                    *)
(***************************************************************************)
getUserChecks(token) ==
    IF token = NoCookie THEN 401                          \* no Authorization header
    ELSE IF decodedSub(token) = NoKey THEN 401
    ELSE IF ~jwtVerify(token, encodePublicKey(token.sub), now) THEN 401
    ELSE 0

(***************************************************************************)
(* The copy in revert-deploy.sh only decodes the token: jwt.verify is not  *)
(* called.                                                                 *)
(***************************************************************************)
getUserChecksRevert(token) ==
    IF token = NoCookie THEN 401
    ELSE IF decodedSub(token) = NoKey THEN 401
    ELSE 0

getUser(token) ==
    /\ CanStart
    /\ UNCHANGED nonceCount
    /\ LET req == [authorization |-> token]
           status == IF variant = "deployed" THEN getUserChecks(token)
                     ELSE getUserChecksRevert(token)
       IN  IF status # 0
           THEN Return(Response("getUser", status, req, NoCookie,
                                [error |-> "Unauthorized"], now, NoItem))
           ELSE Await([op |-> "getUser", call |-> "get", req |-> req,
                       key |-> token.sub, at |-> now])

(***************************************************************************)
(* The body of a 200 of getUser: publicKey, createdAt and updatedAt of the *)
(* Item; JSON.stringify leaves out the ones that are undefined.            *)
(***************************************************************************)
userData(item) ==
    [f \in DOMAIN item \cap {"publicKey", "createdAt", "updatedAt"} |-> item[f]]

(***************************************************************************)
(* getUserReply taking an Item without createdAt for no Item at all.       *)
(***************************************************************************)
getUserReplyNeedsCreatedAt(s, ok) ==
    LET p == pending[s]
        item == ItemOf(p.key)
    IN
    /\ p.op = "getUser"
    /\ resp' = IF ~ok
               THEN [Response("getUser", 401, p.req, NoCookie,
                              [error |-> "Unauthorized"], p.at, item)
                     EXCEPT !.fault = TRUE]
               ELSE IF item = NoItem \/ ~("createdAt" \in DOMAIN item)
               THEN Response("getUser", 404, p.req, NoCookie,
                             [error |-> "User not found"], p.at, item)
               ELSE Response("getUser", 200, p.req, NoCookie, userData(item), p.at, item)
    /\ StoreOutcome(ok)
    /\ pending' = [pending EXCEPT ![s] = Idle]
    /\ UNCHANGED <<variant, ivSet, now, ticks, store, requests, nonceCount, issued,
                   minted, authCount, rivalWon>>

(***************************************************************************)
(* getUser after its dynamoDB.get: 404 without an Item, 200 with the user  *)
(* data, and 401 when the get was rejected (the get is inside the try      *)
(* whose catch answers 401).                                               *)
(***************************************************************************)
getUserReply(s, ok) ==
    LET p == pending[s]
        item == ItemOf(p.key)
    IN
    /\ p.op = "getUser"
    /\ resp' = IF ~ok
               THEN [Response("getUser", 401, p.req, NoCookie,
                              [error |-> "Unauthorized"], p.at, item)
                     EXCEPT !.fault = TRUE]
               ELSE IF item = NoItem
               THEN Response("getUser", 404, p.req, NoCookie,
                             [error |-> "User not found"], p.at, item)
               ELSE Response("getUser", 200, p.req, NoCookie, userData(item), p.at, item)
    /\ StoreOutcome(ok)
    /\ pending' = [pending EXCEPT ![s] = Idle]
    /\ UNCHANGED <<variant, ivSet, now, ticks, store, requests, nonceCount, issued,
                   minted, authCount, rivalWon>>

(***************************************************************************)
(* The jwt-validator Lambda.  Its encodePublicKey is not the one of the    *)
(* user-manager: it is the hex text of the public key encrypted with       *)
(* aes-256-cbc under GM_TYPE and IV.                                       *)
(***************************************************************************)
validatorEncodePublicKey(publicKey) == [hex |-> Encrypt(publicKey)]

(***************************************************************************)
(* generatePolicy(principalId, effect, resource, context)                  *)
(***************************************************************************)
generatePolicy(principalId, effect, token) ==
    [op |-> "authorizer", req |-> token, principalId |-> principalId,
     effect |-> effect, hasContext |-> effect = "Allow", at |-> now]

(***************************************************************************)
(* authenticateJWT(token) of jwt-validator/index.js: TRUE when it returns  *)
(* the decoded token, FALSE when it throws.  A token jwt.decode cannot     *)
(* read makes decodedToken.sub throw inside the try.                       *)
(***************************************************************************)
authenticateJWT(token) ==
    /\ decodedSub(token) # NoKey
    /\ jwtVerify(token, validatorEncodePublicKey(token.sub), now)

(***************************************************************************)
(* handler of jwt-validator/index.js, event.authorizationToken being       *)
(* "Bearer " followed by the token.  Without IV or GM_TYPE the module      *)
(* throws while it loads (Buffer.from(undefined, 'base64')) and no         *)
(* invocation returns a policy.                                            *)
(***************************************************************************)
validatorHandler(token) ==
    /\ requests < MaxRequests
    /\ requests' = requests + 1
    /\ resp' = IF ~ivSet
                 THEN [op |-> "authorizer", req |-> token, principalId |-> "user",
                       effect |-> "InitError", hasContext |-> FALSE, at |-> now]
                 ELSE IF token = NoCookie THEN generatePolicy("user", "Deny", token)
                 ELSE IF authenticateJWT(token)
                 THEN generatePolicy(token.sub, "Allow", token)
                 ELSE generatePolicy("user", "Deny", token)
    /\ UNCHANGED <<variant, ivSet, now, ticks, store, pending, nonceCount, issued,
                   minted, faults, authCount, rivalWon>>

(***************************************************************************)
(* handler of the other copy of the authorizer: jwt.verify(token,          *)
(* ACCESS_TOKEN_SECRET), the bare secret for every subject.                *)
(***************************************************************************)
authorizerHandler(token) ==
    /\ requests < MaxRequests
    /\ requests' = requests + 1
    /\ resp' = IF token = NoCookie THEN generatePolicy("user", "Deny", token)
                 ELSE IF jwtVerify(token, plainSecret, now)
                 THEN generatePolicy(token.sub, "Allow", token)
                 ELSE generatePolicy("user", "Deny", token)
    /\ UNCHANGED <<variant, ivSet, now, ticks, store, pending, nonceCount, issued,
                   minted, faults, authCount, rivalWon>>

(***************************************************************************)
(* handler, lines 118-135: a method and path that is none of the four      *)
(* routes (a GET here: a POST is first held to a JSON body) is answered    *)
(* 400 by the final else of the routing.                                   *)
(***************************************************************************)
(* handler, lines 37-85: the events the handler accepts.  An API Gateway   *)
(* REST event carries httpMethod and path, an HTTP API event carries them  *)
(* under requestContext.http, and any other event is read like the first   *)
(* kind (a field it lacks is undefined).                                   *)
(***************************************************************************)
Undefined == "undefined"
ApiGatewayEvent(method, path, body) == [httpMethod |-> method, path |-> path, body |-> body]
HttpApiEvent(method, path, body) ==
    [requestContext |-> [http |-> [method |-> method, path |-> path]], body |-> body]
DirectEvent(method, body) == [httpMethod |-> method, body |-> body]

Field(event, f) == IF f \in DOMAIN event THEN event[f] ELSE Undefined

extract(event) ==
    IF "httpMethod" \in DOMAIN event /\ "path" \in DOMAIN event
    THEN [httpMethod |-> event.httpMethod, path |-> event.path]
    ELSE IF "requestContext" \in DOMAIN event /\ "http" \in DOMAIN event.requestContext
    THEN [httpMethod |-> event.requestContext.http.method,
          path |-> event.requestContext.http.path]
    ELSE [httpMethod |-> Field(event, "httpMethod"), path |-> Field(event, "path")]

(***************************************************************************)
(* handler, lines 118-135: the routing.                                    *)
(***************************************************************************)
route(httpMethod, path) ==
    IF httpMethod = "POST" /\ path = "/tokens" THEN "generateTokens"
    ELSE IF httpMethod = "POST" /\ path = "/nonce" THEN "createNonce"
    ELSE IF httpMethod = "POST" /\ path = "/refresh" THEN "refreshToken"
    ELSE IF httpMethod = "GET" /\ path = "/user" THEN "getUser"
    ELSE "other"

\* events for a method and path that is none of the four routes
OtherEvents ==
    {ApiGatewayEvent("GET", "/tokens", InvalidJson),
     HttpApiEvent("POST", "/user", [json |-> TRUE]),
     HttpApiEvent("POST", "/user", InvalidJson),
     DirectEvent("POST", [json |-> TRUE])}

(***************************************************************************)
(* handler, lines 87-135, for such an event: a POST is first held to a     *)
(* JSON body (400 "Invalid JSON body"), then the final else of the routing *)
(* answers 400 "Invalid request path or method".  No store call is made.   *)
(***************************************************************************)
invalidRoute(event) ==
    LET r   == extract(event)
        req == [route |-> route(r.httpMethod, r.path), httpMethod |-> r.httpMethod,
                path |-> r.path, body |-> event.body]
    IN
    /\ CanStart
    /\ req.route = "other"
    /\ UNCHANGED nonceCount
    /\ IF ~event.body.json /\ r.httpMethod = "POST"
       THEN Return(InvalidBody("handler", req))
       ELSE Return(Response("handler", 400, req, NoCookie,
                            [error |-> "Invalid request path or method"], now, NoItem))

(***************************************************************************)
(*                     magefile.go: SendApiRequests                        *)
(*                                                                         *)
(* The main goroutine starts REQUST_COUNT processRequest goroutines and    *)
(* waits for the WaitGroup.  mage.wg is the WaitGroup's counter,           *)
(* mage.g[i] the position of the goroutine started for request i and       *)
(* mage.dones[i] the number of times it has called wg.Done.  A panic in    *)
(* any goroutine, like log.Fatal, ends the whole program.                  *)
(***************************************************************************)
Requests == 0 .. REQUST_COUNT - 1
MageIdle == [pc |-> "idle"]

mageStart(endpointOk) ==
    [pc |-> "loop", endpointOk |-> endpointOk, i |-> 0, wg |-> 0,
     g |-> [r \in Requests |-> "none"], dones |-> [r \in Requests |-> 0]]

Alive == mage.pc \in {"loop", "wait"}

(***************************************************************************)
(* SendApiRequests, lines 320-326, one turn of the loop: wg.Add(1) and     *)
(* `go processRequest(req, &wg)`.                                          *)
(***************************************************************************)
goProcessRequest ==
    /\ mage.pc = "loop"
    /\ mage.i < REQUST_COUNT
    /\ mage' = [mage EXCEPT !.g[mage.i] = "started", !.wg = @ + 1, !.i = @ + 1]
    /\ UNCHANGED <<serviceVars, master, cloud, script>>

\* line 327: the loop is over and the main goroutine calls wg.Wait()
wgWait ==
    /\ mage.pc = "loop"
    /\ mage.i = REQUST_COUNT
    /\ mage' = [mage EXCEPT !.pc = "wait"]
    /\ UNCHANGED <<serviceVars, master, cloud, script>>

\* wg.Wait() returns when the counter is zero, and SendApiRequests returns
wgWaitReturns ==
    /\ mage.pc = "wait"
    /\ mage.wg = 0
    /\ mage' = [mage EXCEPT !.pc = "returned"]
    /\ UNCHANGED <<serviceVars, master, cloud, script>>

(***************************************************************************)
(* processRequest, lines 362-380.  http.NewRequest rejects an endpoint     *)
(* that is no URL and log.Fatal exits the program.  client.Do returns a    *)
(* response (sent) or, within the client's 60 s timeout, an error with a   *)
(* nil response: the error is printed and the function goes on to          *)
(* `defer resp.Body.Close()`, which dereferences the nil response and      *)
(* panics.                                                                 *)
(***************************************************************************)
clientDo(r, sent) ==
    /\ Alive
    /\ mage.g[r] = "started"
    /\ mage' = IF ~mage.endpointOk THEN [mage EXCEPT !.pc = "fatal", !.g[r] = "fatal"]
               ELSE IF sent THEN [mage EXCEPT !.g[r] = "responded"]
               ELSE [mage EXCEPT !.pc = "panic", !.g[r] = "panic"]
    /\ UNCHANGED <<serviceVars, master, cloud, script>>

(***************************************************************************)
(* processRequest, lines 382-386: the response is printed, wg.Done() is    *)
(* called and the function returns.                                        *)
(***************************************************************************)
wgDone(r) ==
    /\ Alive
    /\ mage.g[r] = "responded"
    /\ mage' = [mage EXCEPT !.g[r] = "returned", !.wg = @ - 1, !.dones[r] = @ + 1]
    /\ UNCHANGED <<serviceVars, master, cloud, script>>

NextMage ==
    \/ goProcessRequest
    \/ wgWait
    \/ wgWaitReturns
    \/ \E r \in Requests, sent \in BOOLEAN : clientDo(r, sent)
    \/ \E r \in Requests : wgDone(r)

(***************************************************************************)
(*                          deploy-master.sh                               *)
(*                                                                         *)
(* The script runs under `set -e`: a simple command that exits non-zero    *)
(* ends the script with that status.  master.started lists the step        *)
(* scripts that were started, master.exits the exit status of each, and    *)
(* master.status is "running" until the script has exited.                 *)
(***************************************************************************)
Running    == -1     \* the status of a script that has not exited (no exit status is negative)
MasterIdle == [pc |-> "idle"]

StepScripts == <<"prepare-code.sh", "deploy-infrastructure.sh", "deploy-api.sh">>

\* lines 6-14: the default configuration
DefaultConfig ==
    [REGION |-> "us-east-1", STAGE |-> "dev", API_NAME |-> "auth-api",
     ENABLE_CORS |-> "false"]

Words    == {"--region", "--api-name", "--enable-cors", "--help", "eu-west-1"}
ArgLists == UNION {[1 .. n -> Words] : n \in 0 .. MaxArgs}

masterStart(args) ==
    [pc |-> "parse", args |-> args, config |-> DefaultConfig, started |-> <<>>,
     exits |-> <<>>, summary |-> FALSE, completed |-> FALSE, status |-> Running]

\* the script ends with exit status code
exit(code) == master' = [master EXCEPT !.pc = "exited", !.status = code]

\* the variable an option with a value assigns
OptionVar(key) ==
    CASE key = "--region"   -> "REGION"
      [] key = "--stage"    -> "STAGE"
      [] key = "--api-name" -> "API_NAME"

(***************************************************************************)
(* Lines 17-55, one turn of the while loop.  An option with a value takes  *)
(* "$2" and shifts twice; when the value is missing the second shift fails *)
(* and `set -e` ends the script.                                           *)
(***************************************************************************)
parseArgument ==
    /\ master.pc = "parse"
    /\ master.args # <<>>
    /\ LET key == Head(master.args) IN
       IF key \in {"--region", "--stage", "--api-name"} THEN
           IF Len(master.args) >= 2
           THEN master' = [master EXCEPT !.config[OptionVar(key)] = master.args[2],
                                         !.args = Tail(Tail(master.args))]
           ELSE exit(1)
       ELSE IF key = "--enable-cors" THEN
           master' = [master EXCEPT !.config.ENABLE_CORS = "true",
                                    !.args = Tail(master.args)]
       ELSE IF key = "--help" THEN exit(0)
       ELSE exit(1)                                  \* Unknown option
    /\ UNCHANGED <<serviceVars, mage, cloud, script>>

(***************************************************************************)
(* Lines 57-75: config.env is written (ok) or cannot be written.           *)
(***************************************************************************)
writeConfig(ok) ==
    /\ master.pc = "parse"
    /\ master.args = <<>>
    /\ IF ok THEN master' = [master EXCEPT !.pc = "steps"] ELSE exit(1)
    /\ UNCHANGED <<serviceVars, mage, cloud, script>>

(***************************************************************************)
(* runStep as the script would behave without `set -e`: the exit status of *)
(* the step's script is ignored and the next command runs.                 *)
(***************************************************************************)
runStepNoErrexit(present, code) ==
    LET i == Len(master.started) + 1 IN
    /\ master.pc = "steps"
    /\ IF ~present THEN exit(1)
       ELSE master' = [master EXCEPT
                          !.started = Append(@, StepScripts[i]),
                          !.exits   = Append(@, code),
                          !.pc      = IF i = Len(StepScripts) THEN "summary" ELSE "steps"]
    /\ UNCHANGED <<serviceVars, mage, cloud, script>>

(***************************************************************************)
(* Lines 77-93, one of the three steps: `chmod +x` of the step's script,   *)
(* which fails when the script is missing, then the script itself, which   *)
(* exits with status code.  A non-zero status of either ends the run.      *)
(***************************************************************************)
runStep(present, code) ==
    LET i == Len(master.started) + 1 IN
    /\ master.pc = "steps"
    /\ IF ~present THEN exit(1)
       ELSE master' = [master EXCEPT
                          !.started = Append(@, StepScripts[i]),
                          !.exits   = Append(@, code),
                          !.pc      = IF code # 0 THEN "exited"
                                      ELSE IF i = Len(StepScripts) THEN "summary"
                                      ELSE "steps",
                          !.status  = IF code # 0 THEN code ELSE Running]
    /\ UNCHANGED <<serviceVars, mage, cloud, script>>

(***************************************************************************)
(* Lines 95-123: the summary, printed when deploy-info.env exists, and the *)
(* closing line "Deployment completed successfully!".                      *)
(***************************************************************************)
printSummary(hasInfo) ==
    /\ master.pc = "summary"
    /\ master' = [master EXCEPT !.pc = "exited", !.summary = hasInfo,
                                !.completed = TRUE, !.status = 0]
    /\ UNCHANGED <<serviceVars, mage, cloud, script>>

NextMaster ==
    \/ parseArgument
    \/ \E ok \in BOOLEAN : writeConfig(ok)
    \/ \E present \in BOOLEAN, code \in {0, 1} : runStep(present, code)
    \/ \E hasInfo \in BOOLEAN : printSummary(hasInfo)

(***************************************************************************)
(*         revert-deploy.sh (lines 1-107) and deploy-infrastructure.sh     *)
(*                                                                         *)
(* Both scripts run under `set -e` against the AWS account.  cloud says    *)
(* which resources of the configured names exist: the REST API, the two    *)
(* Lambda functions, the IAM role with its attached managed and its inline *)
(* policies, the API Gateway logs role, the CloudFormation stack of the    *)
(* table and the table itself (the stack, where it exists, holds the       *)
(* table).  One script runs at a time.                                     *)
(***************************************************************************)
Cleanup == "revert-deploy.sh"
Infra   == "deploy-infrastructure.sh"

NothingDeployed ==
    [api |-> FALSE, validator |-> FALSE, manager |-> FALSE, role |-> FALSE,
     attached |-> FALSE, inline |-> FALSE, logsRole |-> FALSE, stack |-> FALSE,
     table |-> FALSE]

Deployed ==
    [api |-> TRUE, validator |-> TRUE, manager |-> TRUE, role |-> TRUE,
     attached |-> TRUE, inline |-> FALSE, logsRole |-> TRUE, stack |-> TRUE,
     table |-> TRUE]

\* every state a deployment, a part of one or an operator can have left behind
DeploymentStates ==
    {c \in [DOMAIN NothingDeployed -> BOOLEAN] :
        /\ (c.attached \/ c.inline) => c.role
        /\ c.stack => c.table}

ScriptIdle == [name |-> "none", pc |-> "idle", status |-> Running, after |-> "none", runs |-> 0]

ScriptsIdle ==
    master = MasterIdle /\ cloud = Deployed /\ script = ScriptIdle /\ mage = MageIdle

\* a script is started from the shell when no other one is running
startScript(name, first) ==
    /\ script.pc \in {"idle", "exited"}
    /\ script.runs < MaxRuns
    /\ script' = [name |-> name, pc |-> first, status |-> Running,
                  after |-> IF script.pc = "exited" /\ script.status = 0
                            THEN script.name ELSE "none",
                  runs |-> script.runs + 1]
    /\ UNCHANGED <<serviceVars, mage, master, cloud>>

\* the running script goes on to pc, or `set -e` ends it with status code
goto(pc)     == script' = [script EXCEPT !.pc = pc]
scriptExit(code) == script' = [script EXCEPT !.pc = "exited", !.status = code]

At(name, pc) == script.name = name /\ script.pc = pc

startCleanup == startScript(Cleanup, "api")

(***************************************************************************)
(* revert-deploy.sh lines 18-27: the REST API named API_NAME is looked up  *)
(* and deleted if there is one.                                            *)
(***************************************************************************)
deleteApi ==
    /\ At(Cleanup, "api")
    /\ cloud' = [cloud EXCEPT !.api = FALSE]
    /\ goto("validator")
    /\ UNCHANGED <<serviceVars, mage, master>>

(***************************************************************************)
(* Lines 32-39 and 41-48: a Lambda function is deleted if get-function     *)
(* finds it.                                                               *)
(***************************************************************************)
deleteFunction(f, next) ==
    /\ At(Cleanup, f)
    /\ cloud' = [cloud EXCEPT ![f] = FALSE]
    /\ goto(next)
    /\ UNCHANGED <<serviceVars, mage, master>>

(***************************************************************************)
(* aws iam delete-role: refused (DeleteConflict) while the role has        *)
(* managed policies attached or inline policies.                           *)
(***************************************************************************)
deleteRoleRefused(c) == c.attached \/ c.inline

(***************************************************************************)
(* Lines 50-80: if get-role finds the role, every attached managed policy  *)
(* is detached, every inline policy deleted, and the role deleted.         *)
(***************************************************************************)
deleteRole ==
    /\ At(Cleanup, "role")
    /\ IF ~cloud.role
       THEN goto("table") /\ UNCHANGED cloud
       ELSE LET detached == [cloud EXCEPT !.attached = FALSE]
                bare     == [detached EXCEPT !.inline = FALSE]
            IN  IF deleteRoleRefused(bare)
                THEN cloud' = bare /\ scriptExit(254)
                ELSE cloud' = [bare EXCEPT !.role = FALSE] /\ goto("table")
    /\ UNCHANGED <<serviceVars, mage, master>>

(***************************************************************************)
(* deleteTable without the fallback of lines 93-103: only the stack is     *)
(* looked for.                                                             *)
(***************************************************************************)
deleteTableStackOnly ==
    /\ At(Cleanup, "table")
    /\ cloud' = IF cloud.stack THEN [cloud EXCEPT !.stack = FALSE, !.table = FALSE]
                ELSE cloud
    /\ goto("done")
    /\ UNCHANGED <<serviceVars, mage, master>>

(***************************************************************************)
(* Lines 82-104: if describe-stacks finds the stack it is deleted and its  *)
(* deletion waited for; otherwise the table, if describe-table finds it,   *)
(* is deleted directly and its deletion waited for.                        *)
(***************************************************************************)
deleteTable ==
    /\ At(Cleanup, "table")
    /\ cloud' = IF cloud.stack THEN [cloud EXCEPT !.stack = FALSE, !.table = FALSE]
                ELSE IF cloud.table THEN [cloud EXCEPT !.table = FALSE]
                ELSE cloud
    /\ goto("done")
    /\ UNCHANGED <<serviceVars, mage, master>>

\* lines 106-107: "Cleanup completed successfully!"
cleanupDone ==
    /\ At(Cleanup, "done")
    /\ scriptExit(0)
    /\ UNCHANGED <<serviceVars, mage, master, cloud>>

startInfra == startScript(Infra, "role")

(***************************************************************************)
(* deploy-infrastructure.sh lines 25-47: the role is created, with its     *)
(* three managed policies, unless get-role finds it.                       *)
(***************************************************************************)
setupRole ==
    /\ At(Infra, "role")
    /\ cloud' = IF cloud.role THEN cloud
                ELSE [cloud EXCEPT !.role = TRUE, !.attached = TRUE]
    /\ goto("logsRole")
    /\ UNCHANGED <<serviceVars, mage, master>>

\* lines 49-73: APIGatewayCloudWatchLogsRole is created unless it exists
setupLogsRole ==
    /\ At(Infra, "logsRole")
    /\ cloud' = [cloud EXCEPT !.logsRole = TRUE]
    /\ goto("table")
    /\ UNCHANGED <<serviceVars, mage, master>>

(***************************************************************************)
(* Lines 75-83: aws cloudformation deploy of the table's stack.  A new     *)
(* stack cannot create a table whose name is taken (the command fails);    *)
(* on an existing stack there is nothing to change, which the command      *)
(* reports with status 0 or non-zero depending on the CLI's default for    *)
(* an empty changeset (emptyOk).                                           *)
(***************************************************************************)
deployTable(emptyOk) ==
    /\ At(Infra, "table")
    /\ IF cloud.stack
       THEN /\ UNCHANGED cloud
            /\ IF emptyOk THEN goto("functions") ELSE scriptExit(255)
       ELSE IF cloud.table
       THEN UNCHANGED cloud /\ scriptExit(255)
       ELSE /\ cloud' = [cloud EXCEPT !.stack = TRUE, !.table = TRUE]
            /\ goto("functions")
    /\ UNCHANGED <<serviceVars, mage, master>>

\* lines 85-110: each function's code is updated if it exists, else it is created
deployFunctions ==
    /\ At(Infra, "functions")
    /\ cloud' = [cloud EXCEPT !.validator = TRUE, !.manager = TRUE]
    /\ goto("done")
    /\ UNCHANGED <<serviceVars, mage, master>>

\* line 113: "Infrastructure deployment completed successfully!"
infraDone ==
    /\ At(Infra, "done")
    /\ scriptExit(0)
    /\ UNCHANGED <<serviceVars, mage, master, cloud>>

NextScripts ==
    \/ startCleanup
    \/ deleteApi
    \/ deleteFunction("validator", "manager")
    \/ deleteFunction("manager", "role")
    \/ deleteRole
    \/ deleteTable
    \/ cleanupDone
    \/ startInfra
    \/ setupRole
    \/ setupLogsRole
    \/ \E emptyOk \in BOOLEAN : deployTable(emptyOk)
    \/ deployFunctions
    \/ infraDone

(***************************************************************************)
(* The bodies clients send to POST /nonce and POST /refresh.               *)
(***************************************************************************)
NonceBodies   == {InvalidJson} \cup {[json |-> TRUE, publicKey |-> k] : k \in PublicKeys \cup {NoKey}}
RefreshBodies == {InvalidJson, [json |-> TRUE]}

Next ==
    \/ \E body \in NonceBodies : createNonce(body) /\ UNCHANGED scriptVars
    \/ \E s \in Slots, ok \in BOOLEAN : createNonceReply(s, ok) /\ UNCHANGED scriptVars
    \/ \E r \in TokenRequests : generateTokens(r.body, r.cookie) /\ UNCHANGED scriptVars
    \/ \E s \in Slots, ok \in BOOLEAN : generateTokensReply(s, ok) /\ UNCHANGED scriptVars
    \/ \E body \in RefreshBodies, cookie \in TokenTexts : refreshToken(body, cookie) /\ UNCHANGED scriptVars
    \/ \E s \in Slots, ok \in BOOLEAN : refreshTokenReply(s, ok) /\ UNCHANGED scriptVars
    \/ \E token \in TokenTexts : getUser(token) /\ UNCHANGED scriptVars
    \/ \E s \in Slots, ok \in BOOLEAN : getUserReply(s, ok) /\ UNCHANGED scriptVars
    \/ \E token \in TokenTexts : validatorHandler(token) /\ UNCHANGED scriptVars
    \/ \E token \in TokenTexts : authorizerHandler(token) /\ UNCHANGED scriptVars
    \/ \E event \in OtherEvents : invalidRoute(event) /\ UNCHANGED scriptVars
    \/ \E d \in ClockSteps : Tick(d) /\ UNCHANGED scriptVars

(***************************************************************************)
(* Spec is the service with deployment/user-manager/index.js deployed,     *)
(* SpecRevert the service with the copy carried in revert-deploy.sh.       *)
(***************************************************************************)
Init       == InitOf("deployed") /\ ScriptsIdle
InitRevert == InitOf("revert") /\ ScriptsIdle

Spec       == Init /\ [][Next]_vars
SpecRevert == InitRevert /\ [][Next]_vars

(***************************************************************************)
(* SpecAfterCleanup is the deployed service, with IV and GM_TYPE set,      *)
(* started on the empty table a cleanup and a new deployment leave, while  *)
(* a client still holds a refresh token from before.                       *)
(***************************************************************************)
InitAfterCleanup ==
    /\ variant = "deployed"
    /\ ivSet = TRUE
    /\ now = 0
    /\ ticks = 0
    /\ store = [k \in PublicKeys |-> NoItem]
    /\ pending = [s \in Slots |-> Idle]
    /\ requests = 0
    /\ nonceCount = 0
    /\ issued = {}
    /\ minted = {[token |-> Orphan(KeyA), use |-> "refresh"]}
    /\ resp = NoResponse
    /\ faults = 0
    /\ authCount = [n \in 1 .. MaxNonces |-> 0]
    /\ rivalWon = [s \in Slots |-> {}]
    /\ ScriptsIdle

SpecAfterCleanup == InitAfterCleanup /\ [][Next]_vars

(***************************************************************************)
(* SpecMaster is one run of deploy-master.sh, from its command line, with  *)
(* nothing deployed yet.                                                   *)
(***************************************************************************)
InitMaster ==
    /\ InitOf("deployed") /\ ~ivSet
    /\ \E args \in ArgLists : master = masterStart(args)
    /\ cloud = NothingDeployed
    /\ script = ScriptIdle
    /\ mage = MageIdle

SpecMaster == InitMaster /\ [][NextMaster]_vars

(***************************************************************************)
(* SpecScripts is revert-deploy.sh and deploy-infrastructure.sh run one    *)
(* after another, in any order, starting from any deployment state.        *)
(***************************************************************************)
InitScripts ==
    /\ InitOf("deployed") /\ ~ivSet
    /\ master = MasterIdle
    /\ cloud \in DeploymentStates
    /\ script = ScriptIdle
    /\ mage = MageIdle

SpecScripts == InitScripts /\ [][NextScripts]_vars

(***************************************************************************)
(* SpecMage is one run of SendApiRequests (mage apiTest).                  *)
(***************************************************************************)
InitMage ==
    /\ InitOf("deployed") /\ ~ivSet
    /\ master = MasterIdle
    /\ cloud = Deployed
    /\ script = ScriptIdle
    /\ \E endpointOk \in BOOLEAN : mage = mageStart(endpointOk)

SpecMage == InitMage /\ [][NextMage]_vars

(***************************************************************************)
(*                               Claims                                    *)
(***************************************************************************)
AccessTokens  == {m.token : m \in {x \in minted : x.use = "access"}}
RefreshTokens == {m.token : m \in {x \in minted : x.use = "refresh"}}

IsCarrier(c)   == c.kind = "cipher"
Has(item, f)   == f \in DOMAIN item

\* the POST /tokens request has a JSON body with all four fields
CompleteBody(req) ==
    /\ req.body.json
    /\ req.body.publicKey # NoKey /\ req.body.signature # NoSignature
    /\ req.body.nonce # NoNonce /\ req.body.isoTimestamp # NoIso

(***************************************************************************)
(* C1.  For every nonce issued by RequestNonce, Authenticate succeeds      *)
(* (200) at most once: after one 200 for the nonce, no later Authenticate  *)
(* presenting the same nonce is answered 200.                              *)
(***************************************************************************)
C1_AuthenticateAtMostOncePerNonce ==
    \A n \in DOMAIN authCount : authCount[n] <= 1

(***************************************************************************)
(* C2.  Refresh presented with a refresh token the service issued answers  *)
(* 200 only when that token equals the refreshToken stored in the          *)
(* subject's identity record at the moment the rotation is applied.        *)
(***************************************************************************)
C2_RefreshOnlyStoredToken ==
    (resp.op = "refreshToken" /\ resp.status = 200 /\ resp.req.cookie \in RefreshTokens)
        => /\ Has(resp.before, "refreshToken")
           /\ resp.before.refreshToken = resp.req.cookie

(***************************************************************************)
(* C3.  Authenticate with a carrier as the service issued it answers 200   *)
(* only when the nonce decrypted from the carrier, the nonce in the body   *)
(* and the nonce stored in the identity record of the presented publicKey  *)
(* are all equal.                                                          *)
(***************************************************************************)
C3_AuthenticateNeedsStoredNonce ==
    (/\ resp.op = "generateTokens" /\ resp.status = 200
     /\ IsCarrier(resp.req.cookie) /\ resp.req.cookie.intact)
        => /\ resp.req.cookie.plain[1] = resp.req.body.nonce
           /\ Has(resp.before, "nonce")
           /\ resp.before.nonce = resp.req.body.nonce

(***************************************************************************)
(* C4.  Authenticate with all four fields and a carrier of the service     *)
(* whose embedded issue time is more than 4 minutes before the handler's   *)
(* clock reading is answered 403, with no token in the response and the    *)
(* record untouched, whoever signed; when it is at most 4 minutes before   *)
(* (exactly 4 minutes included) and the nonce matches, the answer is not   *)
(* the 403 of the nonce check.                                             *)
(***************************************************************************)
C4_FreshnessWindow ==
    (/\ resp.op = "generateTokens"
     /\ CompleteBody(resp.req)
     /\ IsCarrier(resp.req.cookie) /\ resp.req.cookie.intact)
        => LET age == resp.at - resp.req.cookie.plain[2] IN
           /\ age > FreshnessWindowMs
                => /\ resp.status = 403
                   /\ resp.setCookie = NoCookie
                   /\ ~Has(resp.body, "accessToken")
                   /\ store[resp.req.body.publicKey] = resp.before
           /\ (age <= FreshnessWindowMs /\ resp.req.cookie.plain[1] = resp.req.body.nonce)
                => resp.status # 403

\* an Authenticate correctly signed by the key's owner, with a matching carrier exactly
\* 4 minutes old, has been answered 200
C4_WitnessBoundary ==
    /\ resp.op = "generateTokens"
    /\ resp.status = 200
    /\ resp.at - resp.req.cookie.plain[2] = FreshnessWindowMs

\* an Authenticate correctly signed by the key's owner, with a matching carrier older
\* than 4 minutes, has been answered 403
C4_Witness ==
    /\ resp.op = "generateTokens"
    /\ CompleteBody(resp.req)
    /\ IsCarrier(resp.req.cookie) /\ resp.req.cookie.intact
    /\ resp.req.cookie.plain[1] = resp.req.body.nonce
    /\ resp.req.body.signature = Sign(resp.req.body.publicKey,
                                      Message(resp.req.body.nonce, resp.req.body.publicKey,
                                              resp.req.body.isoTimestamp))
    /\ resp.at - resp.req.cookie.plain[2] > FreshnessWindowMs
    /\ resp.status = 403

(***************************************************************************)
(* C5.  WhoAmI returns identity data (200) only for an access token whose  *)
(* signature verifies under the subject's derived secret and whose expiry  *)
(* has not passed.                                                         *)
(***************************************************************************)
C5_WhoAmIOnlyVerifiedToken ==
    (resp.op = "getUser" /\ resp.status = 200)
        => jwtVerify(resp.req.authorization,
                     encodePublicKey(decodedSub(resp.req.authorization)), resp.at)

(***************************************************************************)
(* C6.  Round trip: WhoAmI presented with an access token that a 200 of    *)
(* Authenticate or Refresh returned answers, when the store serves its     *)
(* read, 200 with publicKey equal to the token's subject if the handler's  *)
(* clock is before the token's expiry, and 401 otherwise.                  *)
(***************************************************************************)
C6_AccessTokenRoundTrip ==
    (/\ resp.op = "getUser"
     /\ resp.req.authorization \in AccessTokens
     /\ ~resp.fault)
        => IF Seconds(resp.at) < resp.req.authorization.exp
           THEN /\ resp.status = 200
                /\ Has(resp.body, "publicKey")
                /\ resp.body.publicKey = resp.req.authorization.sub
           ELSE resp.status = 401

\* WhoAmI has answered 200 for a minted access token
C6_Witness ==
    /\ resp.op = "getUser"
    /\ resp.req.authorization \in AccessTokens
    /\ resp.status = 200
    /\ resp.body.publicKey = resp.req.authorization.sub

\* WhoAmI has answered 401 for a minted access token whose TTL has elapsed
C6_WitnessTtlElapsed ==
    /\ resp.op = "getUser"
    /\ resp.req.authorization \in AccessTokens
    /\ Seconds(resp.at) >= resp.req.authorization.exp
    /\ resp.status = 401

(***************************************************************************)
(* C7.  Every access token the user-manager returned, presented to the     *)
(* authorizer before its expiry, gets an Allow policy whose principalId is *)
(* the token's subject.                                                    *)
(***************************************************************************)
C7_AuthorizerAcceptsIssuedTokens ==
    (/\ resp.op = "authorizer"
     /\ resp.req \in AccessTokens
     /\ Seconds(resp.at) < resp.req.exp)
        => /\ resp.effect = "Allow"
           /\ resp.principalId = resp.req.sub

(***************************************************************************)
(* C8.  With IV and GM_TYPE configured, Authenticate with all four fields  *)
(* and a carrier that is absent or that fails decryption (changed          *)
(* ciphertext, or text that is no ciphertext of the service) is answered   *)
(* 401 or 403, never 500 and never 200.                                    *)
(***************************************************************************)
C8_BadCarrierIsCredentialError ==
    (/\ resp.op = "generateTokens"
     /\ ivSet
     /\ CompleteBody(resp.req)
     /\ ~(IsCarrier(resp.req.cookie) /\ resp.req.cookie.intact))
        => resp.status \in {401, 403}

(***************************************************************************)
(* C9.  Two overlapping Refresh calls presenting the same refresh token    *)
(* never both answer 200.                                                  *)
(***************************************************************************)
C9_ConcurrentRefreshOnlyOneWins ==
    ~(resp.op = "refreshToken" /\ resp.status = 200 /\ resp.afterRival)

(***************************************************************************)
(* C10.  RequestNonce on an existing record leaves every field other than  *)
(* nonce and updatedAt as it was: a stored refreshToken is still in the    *)
(* record after a 200 of RequestNonce.                                     *)
(***************************************************************************)
C10_RequestNonceKeepsOtherFields ==
    (resp.op = "createNonce" /\ resp.status = 200 /\ Has(resp.before, "refreshToken"))
        => /\ Has(store[resp.req.body.publicKey], "refreshToken")
           /\ store[resp.req.body.publicKey].refreshToken = resp.before.refreshToken

\* the operations of the user-manager handler
UserManagerOps == {"createNonce", "generateTokens", "refreshToken", "getUser", "handler"}

\* the token presented to POST /refresh verifies under the derived secret of its subject
PresentedVerifies(r) ==
    /\ decodedSub(r.req.cookie) # NoKey
    /\ jwtVerify(r.req.cookie, encodePublicKey(decodedSub(r.req.cookie)), r.at)

(***************************************************************************)
(* C11.  Refresh with a token whose signature and expiry are valid, for a  *)
(* subject that has no identity record, does not answer 200 and creates no *)
(* record for the subject.                                                 *)
(***************************************************************************)
C11_RefreshUnknownSubjectFails ==
    (/\ resp.op = "refreshToken"
     /\ resp.req.body.json
     /\ PresentedVerifies(resp)
     /\ ~resp.fault
     /\ resp.before = NoItem)
        => /\ resp.status # 200
           /\ store[resp.req.cookie.sub] = NoItem

(***************************************************************************)
(* C12.  POST /refresh with no request body and a cookie holding the       *)
(* unexpired refresh token stored in its subject's record answers 200.     *)
(***************************************************************************)
C12_RefreshNeedsOnlyCookie ==
    (/\ resp.op = "refreshToken"
     /\ ~resp.req.body.json
     /\ PresentedVerifies(resp)
     /\ Has(store[resp.req.cookie.sub], "refreshToken")
     /\ store[resp.req.cookie.sub].refreshToken = resp.req.cookie)
        => resp.status = 200

(***************************************************************************)
(* C13.  Every 200 of RequestNonce sets the carrier cookie, and the        *)
(* carrier holds the nonce of the body.                                    *)
(***************************************************************************)
C13_NonceAlwaysWithCarrier ==
    (resp.op = "createNonce" /\ resp.status = 200)
        => /\ IsCarrier(resp.setCookie)
           /\ resp.setCookie.plain[1] = resp.body.nonce

(***************************************************************************)
(* C14.  A handler whose store call was rejected answers 500.              *)
(***************************************************************************)
C14_StoreFailureIs500 ==
    (resp.op \in UserManagerOps /\ resp.fault) => resp.status = 500

(***************************************************************************)
(* C15.  WhoAmI with a token that verifies, when the store serves the      *)
(* read, answers 404 if the subject has no record; the body of a 200 has   *)
(* exactly the fields publicKey, createdAt and updatedAt, with the values  *)
(* of the subject's record.                                                *)
(***************************************************************************)
C15_WhoAmIPublicFieldsOnly ==
    (/\ resp.op = "getUser"
     /\ ~resp.fault
     /\ decodedSub(resp.req.authorization) # NoKey
     /\ jwtVerify(resp.req.authorization,
                  encodePublicKey(decodedSub(resp.req.authorization)), resp.at))
        => LET item == store[resp.req.authorization.sub] IN
           /\ item = NoItem => resp.status = 404
           /\ resp.status = 200 =>
                 /\ DOMAIN resp.body = {"publicKey", "createdAt", "updatedAt"}
                 /\ \A f \in DOMAIN resp.body : Has(item, f) /\ resp.body[f] = item[f]

\* the request lacks a JSON body, or a field its operation requires
MissingField(r) ==
    \/ ~r.req.body.json
    \/ r.op = "createNonce" /\ r.req.body.publicKey = NoKey
    \/ r.op = "generateTokens" /\ ~CompleteBody(r.req)

(***************************************************************************)
(* C16.  A step that answers a POST lacking a JSON body, a RequestNonce    *)
(* lacking publicKey or an Authenticate lacking one of its four fields     *)
(* answers 400, sets no cookie, and changes neither the store nor the set  *)
(* of tokens given out.                                                    *)
(***************************************************************************)
C16_MissingFieldIs400 ==
    [][(/\ resp'.op \in {"createNonce", "generateTokens", "refreshToken"}
        /\ MissingField(resp'))
          => /\ resp'.status = 400
             /\ resp'.setCookie = NoCookie
             /\ store' = store
             /\ minted' = minted]_vars

\* an Authenticate lacking only isoTimestamp, sent with the carrier of its nonce, has
\* been answered 400
C16_Witness ==
    /\ resp.op = "generateTokens"
    /\ resp.req.body.json
    /\ resp.req.body.isoTimestamp = NoIso
    /\ resp.req.body.publicKey # NoKey /\ resp.req.body.signature # NoSignature
    /\ resp.req.body.nonce # NoNonce
    /\ IsCarrier(resp.req.cookie)
    /\ resp.status = 400
    /\ store[resp.req.body.publicKey] = resp.before

\* the status codes the handler answers with
StatusCodes == {200, 400, 401, 403, 404, 500}

(***************************************************************************)
(* C17.  Every response of the user-manager handler carries one of the     *)
(* statuses 200, 400, 401, 403, 404, 500, whatever failed (store call,     *)
(* decryption, signature decoding); a response with status 200 follows no  *)
(* rejected store call and carries no error body.                          *)
(***************************************************************************)
C17_HandlerAlwaysAnswers ==
    resp.op \in UserManagerOps
        => /\ resp.status \in StatusCodes
           /\ resp.status = 200 => ~resp.fault /\ ~Has(resp.body, "error")

\* failures of collaborators have been answered: a rejected store call with 500, or a
\* cookie the decipher throws on with 500
C17_Witness ==
    /\ resp.op \in {"createNonce", "generateTokens"}
    /\ resp.status = 500
    /\ resp.fault \/ (resp.op = "generateTokens" /\ resp.req.cookie = JunkCookie)

\* what C18 says of the response r of Authenticate, the table being `after` and having
\* been `before` the step that returned r
AuthenticateInOrder(r, after, before) ==
    LET b  == r.req.body
        c  == r.req.cookie
        ok == verify(Message(b.nonce, b.publicKey, b.isoTimestamp), b.signature, b.publicKey)
        nonceCheck == /\ c.plain[1] = b.nonce
                      /\ c.intact => r.at - c.plain[2] <= FreshnessWindowMs
    IN  /\ r.status = 200 =>
              /\ CompleteBody(r.req)
              /\ IsCarrier(c)
              /\ nonceCheck
              /\ ok = "valid"
              /\ Has(after[b.publicKey], "refreshToken")
              /\ after[b.publicKey].refreshToken = r.setCookie
        /\ r.status # 200 => after = before
        \* the order of the checks: the first one that fails decides the answer
        /\ ~CompleteBody(r.req) => r.status = 400
        /\ (CompleteBody(r.req) /\ ivSet /\ c = NoCookie) => r.status = 401
        /\ (CompleteBody(r.req) /\ IsCarrier(c) /\ c.intact /\ ~nonceCheck) => r.status = 403
        /\ (CompleteBody(r.req) /\ IsCarrier(c) /\ c.intact /\ nonceCheck /\ ok = "invalid")
              => r.status = 401

(***************************************************************************)
(* C18.  Every step that returns a response of Authenticate: a 200 only    *)
(* for a request with all four fields, a carrier that decrypts, a nonce    *)
(* that passes the nonce check and a signature that verifies over the      *)
(* message, the record of publicKey then holding the refresh token of the  *)
(* response; the checks decide in that order (a signature that does not    *)
(* verify gives 401 only after the nonce check passed); every other status *)
(* leaves the table as it was.                                             *)
(***************************************************************************)
C18_AuthenticateChecksInOrder ==
    [][resp'.op = "generateTokens" => AuthenticateInOrder(resp', store', store)]_vars

\* Authenticate has answered 200 and the record holds the refresh token of the response
C18_Witness ==
    /\ resp.op = "generateTokens"
    /\ resp.status = 200
    /\ store[resp.req.body.publicKey].refreshToken = resp.setCookie
    /\ resp.req.cookie.intact

(***************************************************************************)
(* C19.  Authenticate for publicKey P with a carrier as the service issued *)
(* it answers 200 only if a RequestNonce for that same P issued the        *)
(* presented nonce and carrier.                                            *)
(***************************************************************************)
C19_NonceBoundToIdentity ==
    (/\ resp.op = "generateTokens"
     /\ resp.status = 200
     /\ resp.req.cookie.intact)
        => \E i \in issued : /\ i.publicKey = resp.req.body.publicKey
                             /\ i.nonce = resp.req.body.nonce
                             /\ i.carrier = resp.req.cookie

(***************************************************************************)
(* C20.  Refresh never answers 200 to a token the service gave out as an   *)
(* access token, and neither WhoAmI (200) nor an authorizer (Allow)        *)
(* accepts a token it gave out as a refresh token.                         *)
(***************************************************************************)
C20_TokensNotInterchangeable ==
    /\ (resp.op = "refreshToken" /\ resp.status = 200)
          => resp.req.cookie \notin AccessTokens
    /\ (resp.op = "getUser" /\ resp.status = 200)
          => resp.req.authorization \notin RefreshTokens
    /\ (resp.op = "authorizer" /\ resp.effect = "Allow")
          => resp.req \notin RefreshTokens

\* what C21 says of the response r of Refresh, the table being `after` and having been
\* `before` the step that returned r
RefreshFailsClosed(r, after, before) ==
    /\ r.status # 200 =>
          /\ r.setCookie = NoCookie
          /\ ~Has(r.body, "accessToken")
          /\ after = before
    /\ r.status = 200 =>
          /\ Has(after[r.req.cookie.sub], "refreshToken")
          /\ after[r.req.cookie.sub].refreshToken = r.setCookie

(***************************************************************************)
(* C21.  Every step that returns a response of Refresh: with a status      *)
(* other than 200 the response holds no access token and sets no cookie,   *)
(* and the table is as it was; with 200, the record of the token's subject *)
(* holds the refresh token of the response.                                *)
(***************************************************************************)
C21_RefreshFailsClosed ==
    [][resp'.op = "refreshToken" => RefreshFailsClosed(resp', store', store)]_vars

\* Refresh has answered 403 because the store rejected the update, with no token in the
\* response and the old refresh token still in the record
C21_Witness ==
    /\ resp.op = "refreshToken"
    /\ resp.status = 403
    /\ resp.fault
    /\ resp.setCookie = NoCookie
    /\ Has(store[resp.req.cookie.sub], "refreshToken")
    /\ store[resp.req.cookie.sub] = resp.before

(***************************************************************************)
(* C22.  No step changes or removes the createdAt of a record that has     *)
(* one, and every record that exists has a createdAt, not later than its   *)
(* updatedAt.                                                              *)
(***************************************************************************)
C22_CreatedAtIsStable ==
    [][\A k \in PublicKeys :
          /\ store'[k] # NoItem =>
                /\ Has(store'[k], "createdAt")
                /\ store'[k].createdAt <= store'[k].updatedAt
          /\ Has(store[k], "createdAt") =>
                /\ Has(store'[k], "createdAt")
                /\ store'[k].createdAt = store[k].createdAt]_vars

\* the identity for which the user-manager operation answered by r acted
SubjectOf(r) ==
    IF r.op \in {"createNonce", "generateTokens"} THEN
        (IF r.req.body.json THEN r.req.body.publicKey ELSE NoKey)
    ELSE IF r.op = "refreshToken" THEN decodedSub(r.req.cookie)
    ELSE IF r.op = "getUser" THEN decodedSub(r.req.authorization)
    ELSE NoKey

(***************************************************************************)
(* C23.  A step changes no record other than the one keyed by the identity *)
(* its operation acts for, and what WhoAmI returns is the record of the    *)
(* token's subject.                                                        *)
(***************************************************************************)
C23_IdentitiesDoNotInterfere ==
    [][/\ \A q \in PublicKeys :
             store'[q] # store[q] => (resp'.op \in UserManagerOps /\ SubjectOf(resp') = q)
       /\ (resp'.op = "getUser" /\ resp'.status = 200)
             => resp'.body.publicKey = SubjectOf(resp')]_vars

\* an operation for one identity has written its record while another identity has a
\* record, which is as it was
C23_Witness ==
    /\ resp.op \in {"createNonce", "generateTokens", "refreshToken"}
    /\ resp.status = 200
    /\ store[SubjectOf(resp)] # resp.before
    /\ \E q \in PublicKeys \ {SubjectOf(resp)} : store[q] # NoItem

(***************************************************************************)
(* C24.  Every refreshToken in the table is a refresh token the service    *)
(* signed for the record's own publicKey and returned as the cookie of a   *)
(* 200 response of generateTokens or refreshToken.                         *)
(***************************************************************************)
C24_StoredTokenIsOwn ==
    \A k \in PublicKeys :
        Has(store[k], "refreshToken") =>
            /\ store[k].refreshToken \in RefreshTokens
            /\ store[k].refreshToken.sub = k
            /\ store[k].refreshToken.key = encodePublicKey(k)

\* both identities hold a refresh token, one of them written by a rotation
C24_Witness ==
    /\ \A k \in PublicKeys : Has(store[k], "refreshToken")
    /\ resp.op = "refreshToken" /\ resp.status = 200
    /\ store[resp.req.cookie.sub].refreshToken = resp.setCookie

(***************************************************************************)
(* C25.  The refresh token set by a successful refreshToken differs from   *)
(* the refresh token that was presented.                                   *)
(***************************************************************************)
C25_RotationYieldsFreshToken ==
    (resp.op = "refreshToken" /\ resp.status = 200 /\ resp.req.cookie \in RefreshTokens)
        => resp.setCookie # resp.req.cookie

(***************************************************************************)
(* C26.  generateTokens with a fresh, intact carrier and a signature that  *)
(* decodes to the wrong number of bytes answers 401, with one that is not  *)
(* base58 answers 400, and neither sets a cookie or changes the table.     *)
(***************************************************************************)
C26_MalformedSignatureFailsClosed ==
    (/\ resp.op = "generateTokens"
     /\ CompleteBody(resp.req)
     /\ ivSet
     /\ IsCarrier(resp.req.cookie) /\ resp.req.cookie.intact
     /\ resp.req.cookie.plain[1] = resp.req.body.nonce
     /\ ~JsLess(resp.req.cookie.plain[2], resp.at - FreshnessWindowMs)
     /\ resp.req.body.signature \in {WrongLength, NotBase58})
        => /\ resp.status = (IF resp.req.body.signature = NotBase58 THEN 400 ELSE 401)
           /\ resp.setCookie = NoCookie
           /\ store[resp.req.body.publicKey] = resp.before

(***************************************************************************)
(* C27.  Every invocation of the authorizer returns a policy: Deny for     *)
(* principal 'user' without context when there is no authorization token   *)
(* or the token does not verify, Allow only for a token that is a JWT, for *)
(* the principal that is its sub and with the claims as context.           *)
(***************************************************************************)
C27_AuthorizerAlwaysReturnsPolicy ==
    resp.op = "authorizer" =>
        /\ resp.effect \in {"Allow", "Deny"}
        /\ resp.effect = "Deny" => (resp.principalId = "user" /\ ~resp.hasContext)
        /\ resp.effect = "Allow" =>
              /\ decodedSub(resp.req) # NoKey
              /\ resp.principalId = resp.req.sub
              /\ resp.hasContext
        /\ (resp.req = NoCookie \/ decodedSub(resp.req) = NoKey) => resp.effect = "Deny"

(***************************************************************************)
(* C28.  No step removes a record from the table, and getUser answers 404  *)
(* for no identity for which generateTokens has succeeded.                 *)
(***************************************************************************)
C28_RecordsAreNeverDeleted ==
    [][/\ \A k \in PublicKeys : store[k] # NoItem => store'[k] # NoItem
       /\ (resp'.op = "getUser" /\ resp'.status = 404)
             => ~\E m \in minted' : m.token.sub = decodedSub(resp'.req.authorization)]_vars

\* WhoAmI finds the record that generateTokens' put left in place of createNonce's
C28_Witness ==
    /\ resp.op = "getUser" /\ resp.status = 200
    /\ resp.req.authorization \in AccessTokens
    /\ Has(resp.before, "refreshToken") /\ ~Has(resp.before, "createdAt")

\* the last millisecond at which a client that received a cookie with Max-Age maxAge
\* at receivedAt still sends it, and the clock second (Math.floor(ms / 1000)) of it
HeldUntil(receivedAt, maxAge)    == receivedAt + maxAge * 1000 - 1
HeldUntilSec(receivedAt, maxAge) == maxAge + ((receivedAt - 1) \div 1000)

(***************************************************************************)
(* C29.  For as long as a client holds the cookie of a 200 response, the   *)
(* server accepts what it carries: the nonce carrier is within the         *)
(* freshness window and the refresh token is not expired (jwt.verify       *)
(* rejects a token from the second exp on).                                *)
(***************************************************************************)
C29_HeldCookieIsAccepted ==
    \A d \in 0..MaxDeliveryMs :
        /\ (resp.op = "createNonce" /\ resp.status = 200 /\ IsCarrier(resp.setCookie))
              => ~JsLess(resp.setCookie.plain[2],
                         HeldUntil(resp.at + d, NonceCookieMaxAgeSec) - FreshnessWindowMs)
        /\ (resp.op \in {"generateTokens", "refreshToken"} /\ resp.status = 200)
              => HeldUntilSec(resp.at + d, RefreshCookieMaxAgeSec) < resp.setCookie.exp

(***************************************************************************)
(* C30.  A request whose method and path is none of the four routes is     *)
(* answered 400 'Invalid request path or method', in every event format.   *)
(***************************************************************************)
C30_OtherRoutesAreInvalid ==
    (resp.op = "handler" /\ resp.req.route = "other")
        => /\ resp.status = 400
           /\ resp.body.error = "Invalid request path or method"

\* the credential is absent, or jwt.decode gives nothing or no sub
NoCredential(token) == token = NoCookie \/ decodedSub(token) = NoKey

(***************************************************************************)
(* C31.  refreshToken without a usable refresh-token cookie answers 403    *)
(* and getUser without a usable Authorization token answers 401, and       *)
(* neither step changes the table or leaves a store call pending.          *)
(***************************************************************************)
C31_MissingCredentialsRejected ==
    [][/\ (resp'.op = "refreshToken" /\ NoCredential(resp'.req.cookie))
             => (resp'.status = 403 /\ store' = store /\ pending' = pending)
       /\ (resp'.op = "getUser" /\ NoCredential(resp'.req.authorization))
             => (resp'.status = 401 /\ store' = store /\ pending' = pending)]_vars

(***************************************************************************)
(* C32.  deploy-master.sh starts prepare-code.sh, deploy-infrastructure.sh *)
(* and deploy-api.sh in this order, each only after the one before it      *)
(* exited with status 0; a step that exits non-zero is the last one        *)
(* started and ends the run with its status; and the closing line is       *)
(* printed only after all three exited with status 0.                      *)
(***************************************************************************)
C32_MasterStepsInOrder ==
    LET n == Len(master.started) IN
    /\ n <= Len(StepScripts)
    /\ Len(master.exits) = n
    /\ \A i \in 1 .. n : master.started[i] = StepScripts[i]
    /\ \A i \in 1 .. n - 1 : master.exits[i] = 0
    /\ (n > 0 /\ master.exits[n] # 0)
          => (master.pc = "exited" /\ master.status = master.exits[n])
    /\ master.completed
          => (n = Len(StepScripts) /\ \A i \in 1 .. n : master.exits[i] = 0)

\* the closing line was printed after a run with options on the command line
C32_Witness ==
    /\ master.completed /\ master.status = 0
    /\ master.started = StepScripts
    /\ master.config.ENABLE_CORS = "true"

\* none of the resources revert-deploy.sh is to delete exists
NoneExists(c) ==
    ~c.api /\ ~c.validator /\ ~c.manager /\ ~c.role /\ ~c.stack /\ ~c.table

C34_EveryRequestCallsDone ==
    mage.endpointOk =>
        /\ mage.pc # "panic"
        /\ \A r \in Requests :
              /\ mage.dones[r] <= 1
              /\ mage.g[r] \in {"returned", "panic"} => mage.dones[r] = 1
        /\ mage.wg = Cardinality({r \in Requests : mage.g[r] \in {"started", "responded"}})
        /\ mage.pc = "returned" => \A r \in Requests : mage.g[r] = "returned"

====
